---- MODULE Spec2Model ----
(***************************************************************************)
(* A model of the ChessResults pipeline:                                   *)
(*   ResultsConverter.parse_round_cell     (src/results_converter.py)      *)
(*   ResultsConverter.convert_all_results  (src/results_converter.py)      *)
(*   ChessResultsScraper                   (src/chess_results_scraper.py)  *)
(*   ChessStartListScraper                 (src/chess_start_list_scraper.py) *)
(*   ChessTournamentSeleniumScraper.crawl_all_tournaments                  *)
(*                              (src/chess_tournament_selenium_scraper.py) *)
(* Texts that the code parses (round cells, column labels, names) are      *)
(* sequences of one-character strings, so that the regular expressions,    *)
(* int(), str() and f-string formatting are computed and not assumed.      *)
(***************************************************************************)
EXTENDS Integers, Sequences, FiniteSets, TLC

VARIABLES
    csv_files,     \* glob result: sequence of [country, df] found in results_folder
    games_folder,  \* countries whose <country>_games.csv exists in games_folder
    fileIdx,       \* number of files the for-loop of convert_all_results has taken
    df,            \* the table read by pd.read_csv for the current file
    games_df,      \* the DataFrame handed to the last to_csv call
    log,           \* the last diagnostic printed by the loop body
    status,        \* "running", or the exception that left convert_all_results
    cell_value,    \* argument of a direct call of parse_round_cell
    parsed,        \* its return value
    parse_pc,      \* "call" before parse_round_cell ran, "return" after
    soup,          \* the parsed page: [crs1, trs] of its results table
    relative_url,  \* argument of fetch_tournament_results
    column_map,    \* dict label -> index: get_column_structure's return value
    tr,            \* the <tr> handed to parse_result_row / parse_player
    row_data,      \* dict returned by parse_result_row / parse_player
    rows,          \* list of dicts fetch_tournament_results builds its DataFrame from
    scrape_pc,     \* which scraper call has returned, "call" before
    tournament_urls,   \* argument of process_tournaments_async
    max_concurrency,   \* the ceiling the semaphore is created with
    semaphore,         \* the counter of asyncio.Semaphore
    task_pc,           \* per task of fetch_with_limit: where it stands
    results,           \* per task: the value asyncio.gather collects for it
    raised,            \* the tasks whose download raised ("Error fetching/parsing")
    combined,          \* the rows of the DataFrame process_tournaments_async returns
    batch_pc,          \* "idle", "gather" while the tasks run, "returned"
    countryIdx,        \* countries crawl_all_tournaments has left
    fetches,           \* calls of fetch_data made for the current country
    current_end_date,  \* end of the date range of the next fetch, as a day number
    country_tournaments,   \* list handed to create_checkpoint
    all_tournaments,   \* every tournament any fetch returned
    output_file,       \* the rows of the checkpoint CSV
    crawl_pc           \* "idle", "loop", "returned", or the exception raised

vars == <<csv_files, games_folder, fileIdx, df, games_df, log, status,
          cell_value, parsed, parse_pc,
          soup, relative_url, column_map, tr, row_data, rows, scrape_pc,
          tournament_urls, max_concurrency, semaphore, task_pc, results, raised,
          combined, batch_pc,
          countryIdx, fetches, current_end_date, country_tournaments,
          all_tournaments, output_file, crawl_pc>>

convVars == <<csv_files, games_folder, fileIdx, df, games_df, log, status>>
parseVars == <<cell_value, parsed, parse_pc>>
scrapeVars == <<soup, relative_url, column_map, tr, row_data, rows, scrape_pc>>
batchVars == <<tournament_urls, max_concurrency, semaphore, task_pc, results,
               raised, combined, batch_pc>>
crawlVars == <<countryIdx, fetches, current_end_date, country_tournaments,
               all_tournaments, output_file, crawl_pc>>
webVars == <<scrapeVars, batchVars, crawlVars>>

----------------------------------------------------------------------------
(* Bounds of the model.                                                    *)

MaxLen == 4       \* longest text handed directly to parse_round_cell
MaxRows == 3      \* most rows of a results table
MaxRounds == 2    \* most round columns of a results table
NumFiles == 2     \* most *_results.csv files in the results folder

----------------------------------------------------------------------------
(* Python text primitives.                                                 *)

DigitChars == <<"0", "1", "2", "3", "4", "5", "6", "7", "8", "9">>

IsDigit(c) == \E k \in 1..10 : DigitChars[k] = c

DigitValue(c) == (CHOOSE k \in 1..10 : DigitChars[k] = c) - 1

\* int(s) for a text of decimal digits
RECURSIVE PyInt(_)
PyInt(s) ==
    IF s = <<>> THEN 0
    ELSE 10 * PyInt(SubSeq(s, 1, Len(s) - 1)) + DigitValue(s[Len(s)])

\* str(n) / f"{n}" for a natural number
RECURSIVE PyStrInt(_)
PyStrInt(n) ==
    IF n < 10 THEN <<DigitChars[n + 1]>>
    ELSE PyStrInt(n \div 10) \o <<DigitChars[(n % 10) + 1]>>

Whitespace == {" "}

\* str.strip()
RECURSIVE LStrip(_)
LStrip(s) ==
    IF s # <<>> /\ s[1] \in Whitespace THEN LStrip(Tail(s)) ELSE s

RECURSIVE RStrip(_)
RStrip(s) ==
    IF s # <<>> /\ s[Len(s)] \in Whitespace
    THEN RStrip(SubSeq(s, 1, Len(s) - 1)) ELSE s

Strip(s) == RStrip(LStrip(s))

UpperChars == <<"A", "B", "C", "D", "E", "F", "G", "H", "I", "J", "K", "L", "M",
                "N", "O", "P", "Q", "R", "S", "T", "U", "V", "W", "X", "Y", "Z">>
LowerChars == <<"a", "b", "c", "d", "e", "f", "g", "h", "i", "j", "k", "l", "m",
                "n", "o", "p", "q", "r", "s", "t", "u", "v", "w", "x", "y", "z">>

LowerChar(c) ==
    IF \E k \in 1..26 : UpperChars[k] = c
    THEN LowerChars[CHOOSE k \in 1..26 : UpperChars[k] = c]
    ELSE c

\* str.lower()
Lower(s) == [k \in 1..Len(s) |-> LowerChar(s[k])]

\* Python's None as the value of an unmatched regex group
PyNone == "<None>"

\* f"{result}": None is formatted as the text None
PyFormat(v) == IF v = PyNone THEN "None" ELSE v

----------------------------------------------------------------------------
(* parse_round_cell                                                        *)

\* number of leading characters of s matched by \d+ (greedy)
RECURSIVE DigitRun(_)
DigitRun(s) ==
    IF s # <<>> /\ IsDigit(s[1]) THEN 1 + DigitRun(Tail(s)) ELSE 0

ColorClass == {"w", "b"}                          \* [wb]
ResultClass == {"1", "0", "½", "/", "+", "-"}     \* [10½/\+\-]

NoToken == [matched |-> FALSE, opp_num |-> 0, color |-> "", result |-> PyNone]

\* re.match(r"(\d+)([wb])([10½/\+\-])?", s): anchored at the start only
ReMatchCell(s) ==
    LET k == DigitRun(s) IN
    IF k >= 1 /\ Len(s) >= k + 1 /\ s[k + 1] \in ColorClass
    THEN [matched |-> TRUE,
          opp_num |-> PyInt(SubSeq(s, 1, k)),
          color   |-> s[k + 1],
          result  |-> IF Len(s) >= k + 2 /\ s[k + 2] \in ResultClass
                      THEN s[k + 2] ELSE PyNone]
    ELSE NoToken

NanText == <<"n", "a", "n">>

parse_round_cell(text) ==
    LET s == Strip(text) IN
    IF s = <<>> \/ Lower(s) = NanText THEN NoToken
    ELSE ReMatchCell(s)

----------------------------------------------------------------------------
(* The scrapers before any of their calls.                                 *)

NoSoup == [crs1 |-> FALSE, trs |-> <<>>]
NoDict == <<>>

ScrapeIdle ==
    /\ soup = NoSoup
    /\ relative_url = <<>>
    /\ column_map = NoDict
    /\ tr = <<>>
    /\ row_data = NoDict
    /\ rows = <<>>
    /\ scrape_pc = "call"

BatchIdle ==
    /\ tournament_urls = <<>>
    /\ max_concurrency = 0
    /\ semaphore = 0
    /\ task_pc = <<>>
    /\ results = <<>>
    /\ raised = {}
    /\ combined = <<>>
    /\ batch_pc = "idle"

CrawlIdle ==
    /\ countryIdx = 0
    /\ fetches = 0
    /\ current_end_date = 0
    /\ country_tournaments = <<>>
    /\ all_tournaments = <<>>
    /\ output_file = <<>>
    /\ crawl_pc = "idle"

ParseIdle == cell_value = <<>> /\ parsed = NoToken /\ parse_pc = "call"

WebIdle == ScrapeIdle /\ BatchIdle /\ CrawlIdle

----------------------------------------------------------------------------
(* Direct calls of parse_round_cell on arbitrary short texts.              *)

Alphabet == {"1", "0", "w", "b", "½", "+", "-", "/", " ", "n", "a", "N"}

Texts == UNION {[1..k -> Alphabet] : k \in 0..MaxLen}

NoDf == [columns |-> {}, rows |-> <<>>]
NoFrame == [columns |-> {}, rows |-> <<>>]

ConvIdle ==
    /\ csv_files = <<>>
    /\ games_folder = {}
    /\ fileIdx = 0
    /\ df = NoDf
    /\ games_df = NoFrame
    /\ log = "none"
    /\ status = "running"

InitParse ==
    /\ ConvIdle
    /\ WebIdle
    /\ cell_value \in Texts
    /\ parsed = NoToken
    /\ parse_pc = "call"

CallParse ==
    /\ parse_pc = "call"
    /\ parsed' = parse_round_cell(cell_value)
    /\ parse_pc' = "return"
    /\ UNCHANGED <<cell_value, convVars, webVars>>

NextParse == CallParse

SpecParse == InitParse /\ [][NextParse]_vars

----------------------------------------------------------------------------
(* The results table (pandas DataFrame) read from <country>_results.csv:   *)
(* [columns: set of labels, rows: sequence of functions label -> value].   *)

L_Nr == <<"N", "r">>
L_Nazwisko == <<"N", "a", "z", "w", "i", "s", "k", "o">>
L_Rg == <<"R", "g">>
L_Fed == <<"F", "e", "d">>
L_tournament_url == <<"t", "o", "u", "r", "n", "a", "m", "e", "n", "t", "_", "u", "r", "l">>
RdSuffix == <<".", "R", "d">>

\* f"{r}.Rd"
ColName(r) == PyStrInt(r) \o RdSuffix

\* does (\d+)\.Rd match label starting at position s
RdMatchAt(label, s) ==
    /\ IsDigit(label[s])
    /\ LET k == DigitRun(SubSeq(label, s, Len(label))) IN
       /\ s + k + 2 <= Len(label)
       /\ SubSeq(label, s + k, s + k + 2) = RdSuffix

RdMatches(label) == \E s \in 1..Len(label) : RdMatchAt(label, s)

\* Series.str.extract(r"(\d+)\.Rd"): group 1 of the leftmost match
ExtractRd(label) ==
    LET s == CHOOSE t \in 1..Len(label) :
                 /\ RdMatchAt(label, t)
                 /\ \A u \in 1..(t - 1) : ~RdMatchAt(label, u)
        k == DigitRun(SubSeq(label, s, Len(label)))
    IN PyInt(SubSeq(label, s, s + k - 1))

\* float nan, the maximum of an empty column
PyNaN == 0 - 1

SetMax(S) == CHOOSE m \in S : \A x \in S : x <= m

\* df.columns.str.extract(...).dropna().astype(int).max().item()
rounds_num(d) ==
    LET found == {ExtractRd(l) : l \in {c \in d.columns : RdMatches(c)}} IN
    IF found = {} THEN PyNaN ELSE SetMax(found)

\* 'Rg' not in df.columns or 'Fed' not in df.columns
LacksSchema_And(d) == L_Rg \notin d.columns /\ L_Fed \notin d.columns

LacksSchema(d) == L_Rg \notin d.columns \/ L_Fed \notin d.columns

\* row.get("tournament_url", "")
RowGetUrl(d, row) ==
    IF L_tournament_url \in d.columns THEN row[L_tournament_url] ELSE ""

\* df.loc[k] on the default RangeIndex 0..len(df)-1 raises KeyError outside it
LocRaises(d, k) == ~(k >= 0 /\ k < Len(d.rows))

\* df.loc[k]: the row at 0-based position k
Loc(d, k) == d.rows[k + 1]

\* if opp_num <= player_id: continue
DedupSkip_SelfOnly(opp_num, player_id) == opp_num = player_id

DedupSkip(opp_num, player_id) == opp_num <= player_id

\* the result string when the current player is White
WhiteResult(result) ==
    IF result = "1" THEN "1-0"
    ELSE IF result = "0" THEN "0-1"
    ELSE IF result \in {"½", "1/2"} THEN "1/2-1/2"
    ELSE PyFormat(result)

\* the result string when the current player is Black
BlackResult_NoFlip(result) == WhiteResult(result)

BlackResult(result) ==
    IF result = "1" THEN "0-1"
    ELSE IF result = "0" THEN "1-0"
    ELSE IF result \in {"½", "1/2"} THEN "1/2-1/2"
    ELSE PyFormat(result)

\* the dict appended to all_games for row (player) and its parsed round-r cell
GameRecord(d, row, r, tok) ==
    LET opp_row == Loc(d, tok.opp_num - 1) IN
    IF tok.color = "w"
    THEN [Round            |-> r,
          WhiteStartNumber |-> row[L_Nr],
          WhiteFed         |-> row[L_Fed],
          WhiteName        |-> row[L_Nazwisko],
          WhiteRating      |-> row[L_Rg],
          BlackStartNumber |-> tok.opp_num,
          BlackFed         |-> opp_row[L_Fed],
          BlackName        |-> opp_row[L_Nazwisko],
          BlackRating      |-> opp_row[L_Rg],
          Result           |-> WhiteResult(tok.result),
          tournament_url   |-> RowGetUrl(d, row)]
    ELSE [Round            |-> r,
          WhiteStartNumber |-> tok.opp_num,
          WhiteFed         |-> opp_row[L_Fed],
          WhiteName        |-> opp_row[L_Nazwisko],
          WhiteRating      |-> opp_row[L_Rg],
          BlackStartNumber |-> row[L_Nr],
          BlackFed         |-> row[L_Fed],
          BlackName        |-> row[L_Nazwisko],
          BlackRating      |-> row[L_Rg],
          Result           |-> BlackResult(tok.result),
          tournament_url   |-> RowGetUrl(d, row)]

\* the inner loop "for r in range(1, rounds + 1)" of one row, from round r;
\* acc = [all_games, raised]
RECURSIVE ScanRounds(_, _, _, _, _)
ScanRounds(d, rounds, i, r, acc) ==
    LET row == d.rows[i] IN
    IF acc.raised # "none" \/ r > rounds THEN acc
    ELSE IF ColName(r) \notin d.columns THEN acc                     \* break
    ELSE LET tok == parse_round_cell(row[ColName(r)]) IN
         IF ~tok.matched THEN ScanRounds(d, rounds, i, r + 1, acc)          \* continue
         ELSE IF DedupSkip(tok.opp_num, row[L_Nr])
              THEN ScanRounds(d, rounds, i, r + 1, acc)                 \* continue
         ELSE IF LocRaises(d, tok.opp_num - 1)
              THEN [acc EXCEPT !.raised = "KeyError"]
         ELSE ScanRounds(d, rounds, i, r + 1,
                  [acc EXCEPT !.all_games = Append(@, GameRecord(d, row, r, tok))])

\* the outer loop "for i, row in df.iterrows()", from row i
RECURSIVE ScanRows(_, _, _, _)
ScanRows(d, rounds, i, acc) ==
    IF acc.raised # "none" \/ i > Len(d.rows) THEN acc
    ELSE IF ~({L_Nr, L_Nazwisko, L_Rg, L_Fed} \subseteq d.columns)
         THEN [acc EXCEPT !.raised = "KeyError"]      \* row["Nr"] ... row["Fed"]
    ELSE IF rounds = PyNaN
         THEN [acc EXCEPT !.raised = "TypeError"]     \* range(1, nan + 1)
    ELSE ScanRows(d, rounds, i + 1, ScanRounds(d, rounds, i, 1, acc))

\* all_games after the loops, or the exception that left them
AllGames(d) ==
    ScanRows(d, rounds_num(d), 1, [all_games |-> <<>>, raised |-> "none"])

----------------------------------------------------------------------------
(* games_df.sort_values(by=["Round", "WhiteName"]): a stable sort          *)

CodeTable == UpperChars \o LowerChars

CharCode(c) == CHOOSE k \in 1..Len(CodeTable) : CodeTable[k] = c

\* Python's str comparison s <= t
RECURSIVE TextLeq(_, _)
TextLeq(s, t) ==
    IF s = <<>> THEN TRUE
    ELSE IF t = <<>> THEN FALSE
    ELSE IF s[1] = t[1] THEN TextLeq(Tail(s), Tail(t))
    ELSE CharCode(s[1]) < CharCode(t[1])

KeyLeq(a, b) ==
    \/ a.Round < b.Round
    \/ a.Round = b.Round /\ TextLeq(a.WhiteName, b.WhiteName)

\* x put behind the last element of the sorted sequence s whose key is <= x's
RECURSIVE InsertSorted(_, _)
InsertSorted(s, x) ==
    IF s = <<>> THEN <<x>>
    ELSE IF KeyLeq(s[Len(s)], x) THEN Append(s, x)
    ELSE Append(InsertSorted(SubSeq(s, 1, Len(s) - 1), x), s[Len(s)])

RECURSIVE SortFrom(_, _, _)
SortFrom(s, k, acc) ==
    IF k > Len(s) THEN acc ELSE SortFrom(s, k + 1, InsertSorted(acc, s[k]))

SortValues_Unsorted(games) == games

SortValues(games) == SortFrom(games, 1, <<>>)

\* pd.DataFrame(all_games), sorted unless empty: what to_csv writes
GamesFrame(all_games) ==
    IF all_games = <<>> THEN [columns |-> {}, rows |-> <<>>]
    ELSE [columns |-> DOMAIN all_games[1], rows |-> SortValues(all_games)]

----------------------------------------------------------------------------
(* The results tables the conversion is run on.  A table holds the rows of *)
(* one tournament, or of two tournaments one after the other (the          *)
(* aggregated <country>_results.csv); start numbers are dense and 1-based  *)
(* within a tournament.  Round cells follow a schedule of pairings.  The   *)
(* tables are of three kinds: any schedule with the outcomes 1 / 0; one    *)
(* pairing with every outcome text; one pairing at most and one cell       *)
(* overwritten by a text that is not part of a pairing.                    *)

Urls == <<"tnr1001.aspx?lan=1", "tnr2002.aspx?lan=1">>

Surnames == << <<"N", "o", "w", "a", "k">>, <<"A", "b", "e", "l">>,
               <<"K", "o", "s">>, <<"B", "a", "k">>, <<"A", "b", "e", "l">>,
               <<"Z", "a", "k">> >>

Feds == <<"POL", "USA", "GER", "FRA", "ESP", "ITA">>

NameOf(i) == Surnames[((i - 1) % Len(Surnames)) + 1]
FedOf(i) == Feds[((i - 1) % Len(Feds)) + 1]
RatingOf(i) == 2000 + 10 * i

\* sizes of the tournaments whose rows make up a table of n rows
BlockSplits(n) == {<<n>>} \cup {<<k, n - k>> : k \in 1..(n - 1)}

BlockOf(b, i) == IF i <= b[1] THEN 1 ELSE 2
NrOf(b, i) == IF i <= b[1] THEN i ELSE i - b[1]
BlockSize(b, i) == b[BlockOf(b, i)]

\* pairings of one round: disjoint pairs of rows of the same tournament
Pairs(b, n) ==
    {p \in SUBSET (1..n) :
        /\ Cardinality(p) = 2
        /\ \A i, j \in p : BlockOf(b, i) = BlockOf(b, j)}

Matchings(b, n) ==
    {M \in SUBSET Pairs(b, n) : \A p, q \in M : p = q \/ p \cap q = {}}

Partner(M, i) ==
    IF \E p \in M : i \in p
    THEN CHOOSE j \in 1..MaxRows + 1 : j # i /\ {i, j} \in M
    ELSE 0

\* the outcome text in White's cell and in Black's cell of one game
SuffixPairs ==
    { << <<"1">>, <<"0">> >>, << <<"0">>, <<"1">> >>, << <<"½">>, <<"½">> >>,
      << <<"+">>, <<"-">> >>, << <<"-">>, <<"+">> >>, << <<>>, <<>> >>,
      << <<"1", "/", "2">>, <<"1", "/", "2">> >> }

PlainSuffix == << <<"1">>, <<"0">> >>

\* the round columns present: 1..R, or 2..R when the first one is missing
RoundColumnSets ==
    {1..R : R \in 0..MaxRounds} \cup {2..R : R \in 2..MaxRounds}

NoDefect == [row |-> 0, round |-> 0, kind |-> "none"]

DefectKinds == {"blank", "outside", "stray"}

DefectText(n, b, kind) ==
    IF kind = "blank" THEN <<>>
    ELSE IF kind = "outside" THEN PyStrInt(n + 1) \o <<"w", "1">>
    ELSE PyStrInt(BlockSize(b, n)) \o <<"b", "1">>

\* str(cell) of the round-r cell of row i; an empty CSV cell is read as NaN
CellText(n, b, sched, lowWhite, sfx, defect, i, r) ==
    IF defect.row = i /\ defect.round = r THEN DefectText(n, b, defect.kind)
    ELSE LET j == Partner(sched[r], i) IN
         IF j = 0 THEN NanText
         ELSE IF (i < j) = lowWhite
              THEN PyStrInt(NrOf(b, j)) \o <<"w">> \o sfx[1]
              ELSE PyStrInt(NrOf(b, j)) \o <<"b">> \o sfx[2]

BaseColumns == {L_Nr, L_Nazwisko, L_Rg, L_Fed, L_tournament_url}

MkTable(n, b, rc, sched, lowWhite, sfx, defect) ==
    LET cols == BaseColumns \cup {ColName(r) : r \in rc} IN
    [columns |-> cols,
     rows |-> [i \in 1..n |->
        [l \in cols |->
            IF l = L_Nr THEN NrOf(b, i)
            ELSE IF l = L_Nazwisko THEN NameOf(i)
            ELSE IF l = L_Rg THEN RatingOf(i)
            ELSE IF l = L_Fed THEN FedOf(i)
            ELSE IF l = L_tournament_url THEN Urls[BlockOf(b, i)]
            ELSE LET r == CHOOSE q \in rc : ColName(q) = l IN
                 CellText(n, b, sched, lowWhite, sfx, defect, i, r)]]]

Shapes ==
    {sh \in [n : 0..MaxRows, b : UNION {BlockSplits(n) : n \in 0..MaxRows},
             rc : RoundColumnSets] : sh.b \in BlockSplits(sh.n)}

Schedules(sh) == [sh.rc -> Matchings(sh.b, sh.n)]

\* schedules with one pairing at most in the whole table
SparseSchedules(sh) ==
    {sched \in Schedules(sh) :
        /\ \A r \in sh.rc : Cardinality(sched[r]) <= 1
        /\ \A r, q \in sh.rc : r = q \/ sched[r] = {} \/ sched[q] = {}}

DropColumns(t, C) ==
    [columns |-> t.columns \ C,
     rows |-> [i \in 1..Len(t.rows) |-> [l \in t.columns \ C |-> t.rows[i][l]]]]

OneGame == [r \in {1} |-> {{1, 2}}]

GoodTable == MkTable(2, <<2>>, {1}, OneGame, TRUE, PlainSuffix, NoDefect)

NoRoundsTable == MkTable(1, <<1>>, {}, <<>>, TRUE, PlainSuffix, NoDefect)

OutsideTable ==
    MkTable(2, <<2>>, {1}, OneGame, TRUE, PlainSuffix,
            [row |-> 1, round |-> 1, kind |-> "outside"])

SchemaLessTables ==
    {DropColumns(t, C) : t \in {GoodTable, NoRoundsTable},
                         C \in {{L_Rg}, {L_Fed}, {L_Rg, L_Fed}}}

\* the tables of a results folder that holds several files
FolderTables ==
    {GoodTable, NoRoundsTable, OutsideTable,
     DropColumns(GoodTable, {L_Rg}), DropColumns(GoodTable, {L_Fed})}

Countries == <<"POL", "USA", "GER", "FRA">>

----------------------------------------------------------------------------
(* convert_all_results: one action per iteration of "for file_path in      *)
(* csv_files", by the way the iteration ends.                              *)

OneFile(t) ==
    /\ csv_files = <<[country |-> Countries[1], df |-> t]>>
    /\ games_folder = {}

\* any schedule, decisive games
InitPaired ==
    \E sh \in Shapes : \E sched \in Schedules(sh) : \E lowWhite \in BOOLEAN :
        OneFile(MkTable(sh.n, sh.b, sh.rc, sched, lowWhite, PlainSuffix, NoDefect))

\* one pairing, every outcome text
InitOutcome ==
    \E sh \in Shapes : \E sched \in SparseSchedules(sh) :
        \E lowWhite \in BOOLEAN : \E sfx \in SuffixPairs :
            OneFile(MkTable(sh.n, sh.b, sh.rc, sched, lowWhite, sfx, NoDefect))

\* one round cell is overwritten
InitDefect ==
    \E sh \in Shapes : \E sched \in SparseSchedules(sh) :
        \E lowWhite \in BOOLEAN :
            \E i \in 1..sh.n : \E r \in sh.rc : \E k \in DefectKinds :
                OneFile(MkTable(sh.n, sh.b, sh.rc, sched, lowWhite, PlainSuffix,
                                [row |-> i, round |-> r, kind |-> k]))

InitSchemaLess == \E t \in SchemaLessTables : OneFile(t)

\* a results folder with up to NumFiles files, some already converted
InitFolder ==
    \E k \in 1..NumFiles : \E ts \in [1..k -> FolderTables] :
        /\ csv_files = [j \in 1..k |-> [country |-> Countries[j], df |-> ts[j]]]
        /\ games_folder \in SUBSET {Countries[j] : j \in 1..k}

Init ==
    /\ InitPaired \/ InitOutcome \/ InitDefect \/ InitSchemaLess \/ InitFolder
    /\ fileIdx = 0
    /\ df = NoDf
    /\ games_df = NoFrame
    /\ log = "none"
    /\ status = "running"
    /\ cell_value = <<>>
    /\ parsed = NoToken
    /\ parse_pc = "call"
    /\ WebIdle

LoopRuns == status = "running" /\ fileIdx < Len(csv_files)

NextFile == csv_files[fileIdx + 1]

\* os.path.exists(out_path): "Skipping <country>, games file already exists."
SkipExisting ==
    /\ LoopRuns
    /\ NextFile.country \in games_folder
    /\ fileIdx' = fileIdx + 1
    /\ log' = "exists"
    /\ UNCHANGED <<csv_files, games_folder, df, games_df, status, parseVars, webVars>>

\* "Skipping <country>, no ratings found."
SkipNoRatings ==
    /\ LoopRuns
    /\ NextFile.country \notin games_folder
    /\ LacksSchema(NextFile.df)
    /\ fileIdx' = fileIdx + 1
    /\ df' = NextFile.df
    /\ log' = "no_ratings"
    /\ UNCHANGED <<csv_files, games_folder, games_df, status, parseVars, webVars>>

\* the loops finish and games_df.to_csv(out_path) writes the file
ConvertSave ==
    /\ LoopRuns
    /\ NextFile.country \notin games_folder
    /\ ~LacksSchema(NextFile.df)
    /\ LET res == AllGames(NextFile.df) IN
       /\ res.raised = "none"
       /\ games_df' = GamesFrame(res.all_games)
    /\ fileIdx' = fileIdx + 1
    /\ df' = NextFile.df
    /\ games_folder' = games_folder \cup {NextFile.country}
    /\ log' = "saved"
    /\ UNCHANGED <<csv_files, status, parseVars, webVars>>

\* an exception leaves the loops and convert_all_results; nothing is written
ConvertRaise ==
    /\ LoopRuns
    /\ NextFile.country \notin games_folder
    /\ ~LacksSchema(NextFile.df)
    /\ LET res == AllGames(NextFile.df) IN
       /\ res.raised # "none"
       /\ status' = res.raised
    /\ fileIdx' = fileIdx + 1
    /\ df' = NextFile.df
    /\ log' = "loaded"
    /\ UNCHANGED <<csv_files, games_folder, games_df, parseVars, webVars>>

Next == SkipExisting \/ SkipNoRatings \/ ConvertSave \/ ConvertRaise

Spec == Init /\ [][Next]_vars

----------------------------------------------------------------------------
(* Vocabulary of the properties.                                           *)

\* df is the table of the file the loop took last, and it was read
Processed == fileIdx >= 1 /\ log \in {"saved", "loaded", "no_ratings"}

\* the conversion of df ran to its end and games_df was written from it
Saved == fileIdx >= 1 /\ log = "saved"

\* the GameRecords emitted for df
Emitted == IF Saved THEN games_df.rows ELSE <<>>

RowIds(d) == 1..Len(d.rows)

\* the table has the rating column and the federation column
HasRatings(d) == L_Rg \in d.columns /\ L_Fed \in d.columns

RoundLabels(d) == {c \in d.columns : RdMatches(c)}

Token(d, i, c) == parse_round_cell(d.rows[i][c])

\* the parsed round cells of the table, by (row, round label)
TokenTable(d) ==
    [ic \in RowIds(d) \X RoundLabels(d) |-> Token(d, ic[1], ic[2])]

NumTokens(tk) == Cardinality({ic \in DOMAIN tk : tk[ic].matched})

SameTournament(d, i, j) ==
    d.rows[i][L_tournament_url] = d.rows[j][L_tournament_url]

\* the cells of rows i and j in column c name each other
Mutual(d, tk, i, j, c) ==
    /\ i # j
    /\ SameTournament(d, i, j)
    /\ tk[<<i, c>>].matched /\ tk[<<i, c>>].opp_num = d.rows[j][L_Nr]
    /\ tk[<<j, c>>].matched /\ tk[<<j, c>>].opp_num = d.rows[i][L_Nr]

\* every round token is one half of a mutual pairing inside its tournament
Consistent(d, tk) ==
    \A ic \in DOMAIN tk :
        tk[ic].matched => \E j \in RowIds(d) : Mutual(d, tk, ic[1], j, ic[2])

\* the records emitted for round c of the pairing of rows i and j
RecordsOf(d, i, j, c) ==
    {k \in 1..Len(Emitted) :
        /\ Emitted[k].Round = ExtractRd(c)
        /\ Emitted[k].tournament_url = d.rows[i][L_tournament_url]
        /\ {Emitted[k].WhiteStartNumber, Emitted[k].BlackStartNumber}
               = {d.rows[i][L_Nr], d.rows[j][L_Nr]}}

DedupHolds(d, tk) ==
    /\ 2 * Len(Emitted) = NumTokens(tk)
    /\ \A i, j \in RowIds(d) : \A c \in RoundLabels(d) :
           Mutual(d, tk, i, j, c) => Cardinality(RecordsOf(d, i, j, c)) = 1

\* the round columns are 1.Rd .. R.Rd without a gap
Contiguous(d) ==
    RoundLabels(d) = {ColName(r) : r \in 1..Cardinality(RoundLabels(d))}

\* C1 as stated: a consistently paired table yields exactly one GameRecord per
\* (round, pair), so the records number half the round tokens.
C1_Claim ==
    Processed =>
        LET tk == TokenTable(df) IN Consistent(df, tk) => DedupHolds(df, tk)

\* C1 (amended): for a table that has the Rg and Fed columns and whose round
\* columns are contiguous from 1.Rd, consistent pairing yields exactly one
\* GameRecord per (round, pair) and the records number half the round tokens.
C1_Dedup ==
    (Processed /\ HasRatings(df) /\ Contiguous(df)) =>
        LET tk == TokenTable(df) IN Consistent(df, tk) => DedupHolds(df, tk)

C1_Witness ==
    /\ Saved /\ Contiguous(df)
    /\ Len(games_df.rows) = 2
    /\ LET tk == TokenTable(df) IN Consistent(df, tk) /\ NumTokens(tk) = 4

\* the rounds whose cells the scan reaches
ScannedRounds(d) ==
    {r \in 1..(MaxRounds + 1) : \A q \in 1..r : ColName(q) \in d.columns}

\* the (row, round) cells for which a record is built
Materialized(d) ==
    {ir \in RowIds(d) \X ScannedRounds(d) :
        LET t == Token(d, ir[1], ColName(ir[2])) IN
        t.matched /\ t.opp_num > d.rows[ir[1]][L_Nr]}

DrawGlyph == "½"

\* the Result the claim assigns to colour and outcome symbol
ClaimedResult(color, sym) ==
    IF sym = DrawGlyph THEN "1/2-1/2"
    ELSE IF sym = "1" THEN (IF color = "w" THEN "1-0" ELSE "0-1")
    ELSE IF sym = "0" THEN (IF color = "w" THEN "0-1" ELSE "1-0")
    ELSE sym

RoleHolds(d, g, i, r) ==
    LET t == Token(d, i, ColName(r))
        me == d.rows[i]
    IN /\ g.Round = r
       /\ g.tournament_url = me[L_tournament_url]
       /\ IF t.color = "w"
          THEN /\ g.WhiteStartNumber = me[L_Nr] /\ g.WhiteName = me[L_Nazwisko]
               /\ g.WhiteRating = me[L_Rg] /\ g.WhiteFed = me[L_Fed]
               /\ g.BlackStartNumber = t.opp_num
          ELSE /\ g.BlackStartNumber = me[L_Nr] /\ g.BlackName = me[L_Nazwisko]
               /\ g.BlackRating = me[L_Rg] /\ g.BlackFed = me[L_Fed]
               /\ g.WhiteStartNumber = t.opp_num
       /\ t.result # PyNone => g.Result = ClaimedResult(t.color, t.result)

\* C2: every materialized cell has its record: the current player takes the
\* colour of the cell, the opponent the other, and the outcome symbol becomes
\* 1-0 / 0-1 / 1/2-1/2 as seen from White (flipped for a Black cell), any other
\* symbol passed through; and there is no record without such a cell.
C2_Roles ==
    Saved =>
        /\ Len(games_df.rows) = Cardinality(Materialized(df))
        /\ \A ir \in Materialized(df) :
               \E k \in 1..Len(games_df.rows) :
                   RoleHolds(df, games_df.rows[k], ir[1], ir[2])

C2_Witness ==
    /\ Saved
    /\ \E ir \in Materialized(df) :
           LET t == Token(df, ir[1], ColName(ir[2])) IN
           t.color = "b" /\ t.result = "1"
    /\ \E k \in 1..Len(games_df.rows) : games_df.rows[k].Result = "0-1"

MirrorSymbol(sym) ==
    IF sym = "1" THEN "0"
    ELSE IF sym = "0" THEN "1"
    ELSE IF sym = "+" THEN "-"
    ELSE IF sym = "-" THEN "+"
    ELSE sym

\* the cells of rows i and j describe one game from both sides
MirrorConsistent(d, i, j, c) ==
    /\ Mutual(d, TokenTable(d), i, j, c)
    /\ Token(d, i, c).color # Token(d, j, c).color
    /\ Token(d, j, c).result = MirrorSymbol(Token(d, i, c).result)

OneTournament(d) == \A i \in RowIds(d) : d.rows[i][L_Nr] = i

\* C3 as stated: for a game described by two mirror-consistent cells, the
\* record derived from the lower-numbered player's cell is the record derived
\* from the other player's cell: same White, same Black, same Result.
C3_Claim ==
    (Saved /\ OneTournament(df)) =>
        \A i, j \in RowIds(df) : \A r \in ScannedRounds(df) :
            (i < j /\ MirrorConsistent(df, i, j, ColName(r))) =>
                \E k \in 1..Len(games_df.rows) :
                    games_df.rows[k] =
                        GameRecord(df, df.rows[j], r, Token(df, j, ColName(r)))

\* a round cell whose opponent number is beyond the last row
OutsideCells(d) ==
    {ir \in RowIds(d) \X ScannedRounds(d) :
        LET t == Token(d, ir[1], ColName(ir[2])) IN
        t.matched /\ t.opp_num > Len(d.rows)}

\* C4 as stated: a cell whose opponent number points outside the table is
\* skipped, the conversion does not abort, and every other cell's game is emitted.
C4_Claim ==
    (Processed /\ HasRatings(df) /\ OutsideCells(df) # {}) =>
        /\ status = "running"
        /\ Saved
        /\ Len(games_df.rows) = Cardinality(Materialized(df) \ OutsideCells(df))

\* the row of the player with start number nr in the tournament of row i
PlayerRows(d, i, nr) ==
    {j \in RowIds(d) : SameTournament(d, i, j) /\ d.rows[j][L_Nr] = nr}

\* C5 as stated: the opponent's name, rating and federation in a record are
\* those of the player with the cell's opponent number in the current player's
\* tournament, also in a table that holds several tournaments.
C5_Claim ==
    Saved =>
        \A ir \in Materialized(df) :
            LET t == Token(df, ir[1], ColName(ir[2])) IN
            \E k \in 1..Len(games_df.rows) : \E j \in PlayerRows(df, ir[1], t.opp_num) :
                LET g == games_df.rows[k] IN
                /\ RoleHolds(df, g, ir[1], ir[2])
                /\ IF t.color = "w"
                   THEN /\ g.BlackName = df.rows[j][L_Nazwisko]
                        /\ g.BlackRating = df.rows[j][L_Rg]
                        /\ g.BlackFed = df.rows[j][L_Fed]
                   ELSE /\ g.WhiteName = df.rows[j][L_Nazwisko]
                        /\ g.WhiteRating = df.rows[j][L_Rg]
                        /\ g.WhiteFed = df.rows[j][L_Fed]

\* C6 as stated: a table with the Rg and Fed columns and no "<n>.Rd" column
\* is converted to zero games without an error.
C6_Claim ==
    (Processed /\ HasRatings(df) /\ RoundLabels(df) = {}) =>
        /\ status = "running"
        /\ Saved
        /\ games_df.rows = <<>>

\* C7: the iteration that reads a table without the Rg or the Fed column
\* ends with the no-ratings diagnostic: no error, no games written for it,
\* and the loop keeps running for the files that remain.
C7_SchemaSkip ==
    [][(/\ fileIdx' = fileIdx + 1
        /\ log' # "exists"
        /\ ~HasRatings(csv_files[fileIdx'].df))
       => /\ log' = "no_ratings"
          /\ status' = "running"
          /\ df' = csv_files[fileIdx'].df
          /\ games_folder' = games_folder
          /\ games_df' = games_df]_vars

C7_Witness ==
    /\ fileIdx >= 2
    /\ log = "saved"
    /\ ~HasRatings(csv_files[fileIdx - 1].df)
    /\ csv_files[fileIdx - 1].country \notin games_folder

Occurrences(s, x) == Cardinality({k \in 1..Len(s) : s[k] = x})

\* C8: the written records are ordered by (Round, WhiteName) ascending and
\* are a permutation of the records the scan emitted.
C8_Sorted ==
    Saved =>
        LET out == games_df.rows
            emitted == AllGames(df).all_games
        IN /\ \A k \in 1..(Len(out) - 1) :
                  \/ out[k].Round < out[k + 1].Round
                  \/ /\ out[k].Round = out[k + 1].Round
                     /\ TextLeq(out[k].WhiteName, out[k + 1].WhiteName)
           /\ Len(out) = Len(emitted)
           /\ \A k \in 1..Len(out) :
                  Occurrences(out, out[k]) = Occurrences(emitted, out[k])

C8_Witness ==
    /\ Saved
    /\ Len(games_df.rows) >= 2
    /\ games_df.rows # AllGames(df).all_games
    /\ \E k \in 1..(Len(games_df.rows) - 1) :
           /\ games_df.rows[k].Round = games_df.rows[k + 1].Round
           /\ games_df.rows[k].WhiteName # games_df.rows[k + 1].WhiteName

GameColumns ==
    {"Round", "WhiteStartNumber", "WhiteFed", "WhiteName", "WhiteRating",
     "BlackStartNumber", "BlackFed", "BlackName", "BlackRating", "Result",
     "tournament_url"}

\* C9 as stated: the table written for a table of players has the fixed
\* GameRecord columns whether or not any game was emitted.
C9_Claim == (Saved /\ df.rows # <<>>) => games_df.columns = GameColumns

ClaimSymbols == {"1", "0", DrawGlyph, "+", "-"}

\* digits, one of w/b, at most one outcome symbol, and nothing else
FullToken(s) ==
    LET k == DigitRun(s) IN
    /\ k >= 1
    /\ Len(s) \in {k + 1, k + 2}
    /\ s[k + 1] \in {"w", "b"}
    /\ Len(s) = k + 2 => s[k + 2] \in ClaimSymbols

\* C10 as stated: parse_round_cell returns a token exactly when the trimmed
\* text is digits, w or b, and an optional outcome symbol of {1, 0, draw glyph,
\* +, -}; the token is then (opponent number, colour, symbol or none).
C10_Claim ==
    parse_pc = "return" =>
        LET s == Strip(cell_value)
            k == DigitRun(s)
        IN /\ parsed.matched <=> FullToken(s)
           /\ parsed.matched =>
                  /\ parsed.opp_num = PyInt(SubSeq(s, 1, k))
                  /\ parsed.color = s[k + 1]
                  /\ parsed.result = IF Len(s) = k + 2 THEN s[k + 2] ELSE PyNone

----------------------------------------------------------------------------
(* ChessResultsScraper / ChessStartListScraper: the parsed page.  soup is  *)
(* [crs1, trs]: whether the page's table has the class CRs1, and its <tr>  *)
(* rows in document order.  A <tr> is [classes, cells], a cell is          *)
(* [tag, text, href]; href is NoHref unless the cell's text is an anchor.  *)
(* A dict is a function from its keys; a missing key is outside DOMAIN.    *)

MaxCells == 3     \* most cells of a header row
MaxWide == 6      \* most cells of a header row of blank and Nr cells only
MaxTrs == 2       \* most data rows of a page

NoHref == <<PyNone>>

\* Python's None stored as a dict value
AbsentCell == <<PyNone>>

\* d[k] = v
DictSet(d, k, v) == [x \in (DOMAIN d) \cup {k} |-> IF x = k THEN v ELSE d[x]]

\* soup.select_one("table.CRs1 tr.<cls>"): position of the first such row, 0 for None
SelectOne(sp, cls) ==
    LET hits == {k \in 1..Len(sp.trs) : cls \in sp.trs[k].classes} IN
    IF ~sp.crs1 \/ hits = {} THEN 0
    ELSE CHOOSE k \in hits : \A j \in hits : k <= j

\* header_row after the lookup of CRng1b and the fallback to CRg1b
header_row_PrimaryOnly(sp) == SelectOne(sp, "CRng1b")

header_row(sp) ==
    IF SelectOne(sp, "CRng1b") # 0 THEN SelectOne(sp, "CRng1b")
    ELSE SelectOne(sp, "CRg1b")

\* cell.get_text(strip=True)
GetText(cell) == Strip(cell.text)

\* f"col_{i}"
ColI(i) == <<"c", "o", "l", "_">> \o PyStrInt(i)

\* for i, col in enumerate(header_cells): columns[col_name] = i
RECURSIVE EnumerateHeader(_, _, _)
EnumerateHeader(header_cells, i, columns) ==
    IF i >= Len(header_cells) THEN columns
    ELSE LET col_name == GetText(header_cells[i + 1]) IN
         EnumerateHeader(header_cells, i + 1,
             DictSet(columns, IF col_name = <<>> THEN ColI(i) ELSE col_name, i))

get_column_structure(sp) ==
    LET h == header_row(sp) IN
    IF h = 0 THEN NoDict
    ELSE EnumerateHeader(sp.trs[h].cells, 0, NoDict)

\* row.find_all("td")
FindAllTd(row) == SelectSeq(row.cells, LAMBDA c : c.tag = "td")

parse_result_row(row, cmap) ==
    LET cells == FindAllTd(row) IN
    [col_name \in DOMAIN cmap |->
        IF cmap[col_name] < Len(cells)
        THEN GetText(cells[cmap[col_name] + 1])
        ELSE AbsentCell]

\* f"{col_name}_url"
UrlKey(col_name) == col_name \o <<"_", "u", "r", "l">>

\* ChessStartListScraper.parse_player: only the labels that have a cell get a key
parse_player(row, cmap) ==
    LET cols == FindAllTd(row)
        present == {l \in DOMAIN cmap : cmap[l] < Len(cols)}
        linked == {l \in present : cols[cmap[l] + 1].href # NoHref}
    IN [k \in present \cup {UrlKey(l) : l \in linked} |->
           IF k \in present THEN Strip(cols[cmap[k] + 1].text)
           ELSE LET l == CHOOSE x \in linked : UrlKey(x) = k IN
                cols[cmap[l] + 1].href]

\* bool(v) of a dict value
Truthy(v) == v # <<>> /\ v # AbsentCell

\* any(v for v in row_data.values())
AnyValue(d) == \E k \in DOMAIN d : Truthy(d[k])

\* the loop "for tr in table.find_all('tr')" of fetch_tournament_results, from row k
RECURSIVE FetchRows(_, _, _, _, _)
FetchRows(sp, col_map, url, k, acc) ==
    IF k > Len(sp.trs) THEN acc
    ELSE LET row == sp.trs[k] IN
         IF "CRng1b" \in row.classes \/ "CRg1b" \in row.classes
         THEN FetchRows(sp, col_map, url, k + 1, acc)
         ELSE IF Len(FindAllTd(row)) < 2
         THEN FetchRows(sp, col_map, url, k + 1, acc)
         ELSE LET rd == DictSet(parse_result_row(row, col_map), L_tournament_url, url) IN
              FetchRows(sp, col_map, url, k + 1,
                        IF AnyValue(rd) THEN Append(acc, rd) ELSE acc)

----------------------------------------------------------------------------
(* The pages and rows the scraper calls are run on.                        *)

L_col1 == <<"c", "o", "l", "_", "1">>
L_Name == <<"N", "a", "m", "e">>

HeaderTexts == {<<" ">>, L_Nr, <<" ", "R", "g">>, L_col1}

Cell(tag, text) == [tag |-> tag, text |-> text, href |-> NoHref]

HeaderRow(cls, tag, texts) ==
    [classes |-> {cls},
     cells |-> [k \in 1..Len(texts) |-> Cell(tag, texts[k])]]

DataRow(cells) == [classes |-> {"CRg1"}, cells |-> cells]

HeaderMarkers == {"CRng1b", "CRg1b"}

\* a second header row, before or after the first
ExtraHeaders ==
    {[at |-> a, row |-> HeaderRow(cls, "td", texts)] :
        a \in {"before", "after"}, cls \in HeaderMarkers,
        texts \in {<<L_Name>>, <<L_Nr, <<>>, L_Name>>}}

PlayerRow == DataRow(<<Cell("td", <<"1">>), Cell("td", <<"A", "b", "e", "l">>)>>)

SoupOf(crs1, main, extra, data) ==
    [crs1 |-> crs1,
     trs |-> IF extra = <<>> THEN <<main>> \o data
             ELSE IF extra[1].at = "before" THEN <<extra[1].row, main>> \o data
             ELSE <<main, extra[1].row>> \o data]

DataRowPool ==
    {DataRow(<<>>),
     DataRow(<<Cell("td", <<>>)>>),
     DataRow(<<Cell("td", <<>>), Cell("td", <<" ">>)>>),
     DataRow(<<Cell("td", <<>>), Cell("td", <<>>), Cell("td", <<>>)>>),
     DataRow(<<Cell("th", <<"1">>), Cell("td", <<"A", "b", "e", "l">>)>>),
     DataRow(<<Cell("td", <<"2">>), Cell("td", <<>>)>>),
     PlayerRow}

PageHeaders ==
    {<<>>,
     <<HeaderRow("CRng1b", "th", <<L_Nr, L_Name>>)>>,
     <<HeaderRow("CRg1b", "td", <<L_Nr, <<" ">>, L_Name>>)>>}

UrlTexts == {<<"t", "n", "r", "1">>, <<"t", "n", "r", "2">>}

ScrapeStart ==
    /\ column_map = NoDict
    /\ tr = <<>>
    /\ row_data = NoDict
    /\ rows = <<>>
    /\ scrape_pc = "call"

\* one header row of any cells, a second header row or none
InitHeaders ==
    \E k \in 0..MaxCells : \E texts \in [1..k -> HeaderTexts] :
        \E cls \in HeaderMarkers : \E crs1 \in BOOLEAN :
            \E extra \in {<<>>} \cup {<<e>> : e \in ExtraHeaders} :
                soup = SoupOf(crs1, HeaderRow(cls, "th", texts), extra, <<PlayerRow>>)

\* a wide header row of blank cells and Nr cells
InitWide ==
    \E k \in 1..MaxWide : \E texts \in [1..k -> {<<" ">>, L_Nr}] :
        \E cls \in HeaderMarkers :
            soup = SoupOf(TRUE, HeaderRow(cls, "th", texts), <<>>, <<>>)

\* data rows under a fixed header row or under none
InitRows ==
    \E h \in PageHeaders : \E k \in 0..MaxTrs : \E data \in [1..k -> DataRowPool] :
        soup = [crs1 |-> TRUE, trs |-> h \o data]

InitScrape ==
    /\ ConvIdle /\ ParseIdle /\ BatchIdle /\ CrawlIdle
    /\ InitHeaders \/ InitWide \/ InitRows
    /\ relative_url \in UrlTexts
    /\ ScrapeStart

\* a direct call of get_column_structure(soup)
GetColumnStructure ==
    /\ scrape_pc = "call"
    /\ column_map' = get_column_structure(soup)
    /\ scrape_pc' = "columns"
    /\ UNCHANGED <<soup, relative_url, tr, row_data, rows, convVars, parseVars,
                   batchVars, crawlVars>>

\* fetch_tournament_results: "No header row found", an empty DataFrame
FetchNoHeader ==
    /\ scrape_pc = "call"
    /\ get_column_structure(soup) = NoDict
    /\ column_map' = NoDict
    /\ rows' = <<>>
    /\ scrape_pc' = "no_header"
    /\ UNCHANGED <<soup, relative_url, tr, row_data, convVars, parseVars,
                   batchVars, crawlVars>>

\* fetch_tournament_results: pd.DataFrame(rows)
FetchParsed ==
    /\ scrape_pc = "call"
    /\ get_column_structure(soup) # NoDict
    /\ column_map' = get_column_structure(soup)
    /\ rows' = FetchRows(soup, get_column_structure(soup), relative_url, 1, <<>>)
    /\ scrape_pc' = "fetched"
    /\ UNCHANGED <<soup, relative_url, tr, row_data, convVars, parseVars,
                   batchVars, crawlVars>>

\* fetch_tournament_results: the download raises; "Error fetching/parsing"
FetchError ==
    /\ scrape_pc = "call"
    /\ rows' = <<>>
    /\ scrape_pc' = "error"
    /\ UNCHANGED <<soup, relative_url, column_map, tr, row_data, convVars, parseVars,
                   batchVars, crawlVars>>

NextScrape == GetColumnStructure \/ FetchNoHeader \/ FetchParsed \/ FetchError

SpecScrape == InitScrape /\ [][NextScrape]_vars

----------------------------------------------------------------------------
(* Properties of get_column_structure.                                     *)

\* the label of the header cell at 0-based position i
ClaimLabel(cells, i) ==
    LET t == Strip(cells[i + 1].text) IN
    IF t = <<>> THEN <<"c", "o", "l", "_">> \o PyStrInt(i) ELSE t

MarkedRows(sp, cls) ==
    IF sp.crs1 THEN {k \in 1..Len(sp.trs) : cls \in sp.trs[k].classes} ELSE {}

SetMin(S) == CHOOSE m \in S : \A x \in S : m <= x

\* the header row the claim selects: primary if present, else fallback, else none
ClaimHeader(sp) ==
    IF MarkedRows(sp, "CRng1b") # {} THEN SetMin(MarkedRows(sp, "CRng1b"))
    ELSE IF MarkedRows(sp, "CRg1b") # {} THEN SetMin(MarkedRows(sp, "CRg1b"))
    ELSE 0

\* C11: get_column_structure uses the first CRng1b row of the results table,
\* else the first CRg1b row, else returns the empty map; the map depends only
\* on the cell texts of that row: its keys are the labels of the cells, a
\* blank cell at position i labelled col_<i>, and each label is mapped to the
\* last position that carries it.
C11_Columns ==
    scrape_pc = "columns" =>
        LET h == ClaimHeader(soup) IN
        IF h = 0 THEN column_map = NoDict
        ELSE LET cells == soup.trs[h].cells
                 pos == 0..(Len(cells) - 1)
             IN /\ DOMAIN column_map = {ClaimLabel(cells, i) : i \in pos}
                /\ \A i \in pos :
                       column_map[ClaimLabel(cells, i)] =
                           SetMax({j \in pos : ClaimLabel(cells, j) = ClaimLabel(cells, i)})

\* a page with the fallback marker only, blank cells at positions 2 and 5
C11_Witness ==
    /\ scrape_pc = "columns"
    /\ MarkedRows(soup, "CRng1b") = {}
    /\ MarkedRows(soup, "CRg1b") # {}
    /\ LET cells == soup.trs[ClaimHeader(soup)].cells IN
       /\ Len(cells) = 6
       /\ Strip(cells[3].text) = <<>> /\ Strip(cells[6].text) = <<>>
       /\ Strip(cells[1].text) = Strip(cells[2].text) /\ Strip(cells[1].text) # <<>>
    /\ column_map[<<"c", "o", "l", "_", "2">>] = 2
    /\ column_map[<<"c", "o", "l", "_", "5">>] = 5
    /\ column_map[L_Nr] >= 1

----------------------------------------------------------------------------
(* Direct calls of parse_result_row and parse_player on a row and a map.   *)

MaxTds == 3       \* most <td> cells of the row
MaxCols == 5      \* most header positions the column map is taken from

Labels == <<L_Nr, L_Name, L_Fed, L_Rg, <<"C", "l", "u", "b">>, <<"P", "t", "s">>,
            <<"T", "B", "1">>, <<"T", "B", "2">>>>

\* the cells a row is made of: empty, padded text, text inside an anchor
TdCells ==
    {Cell("td", <<>>),
     Cell("td", <<" ", "A", "b", "e", "l", " ">>),
     [tag |-> "td", text |-> <<"K", "o", "s">>, href |-> <<"s", "n", "r", "7">>]}

\* the maps get_column_structure returns for a header of n cells: a label per
\* position, without the positions whose label was taken by a later cell
ColumnMaps ==
    UNION {{[l \in {Labels[i + 1] : i \in kept} |->
                CHOOSE i \in kept : Labels[i + 1] = l] :
            kept \in SUBSET (0..(n - 1))} : n \in 0..MaxCols}

InitRow ==
    /\ ConvIdle /\ ParseIdle /\ BatchIdle /\ CrawlIdle
    /\ soup = NoSoup
    /\ relative_url = <<>>
    /\ \E k \in 0..MaxTds : \E cells \in [1..k -> TdCells] : tr = DataRow(cells)
    /\ column_map \in ColumnMaps
    /\ row_data = NoDict
    /\ rows = <<>>
    /\ scrape_pc = "call"

\* ChessResultsScraper.parse_result_row(tr, column_map)
ParseResultRow ==
    /\ scrape_pc = "call"
    /\ row_data' = parse_result_row(tr, column_map)
    /\ scrape_pc' = "row"
    /\ UNCHANGED <<soup, relative_url, column_map, tr, rows, convVars, parseVars,
                   batchVars, crawlVars>>

\* ChessStartListScraper.parse_player(tr, column_map)
ParsePlayer ==
    /\ scrape_pc = "call"
    /\ row_data' = parse_player(tr, column_map)
    /\ scrape_pc' = "player"
    /\ UNCHANGED <<soup, relative_url, column_map, tr, rows, convVars, parseVars,
                   batchVars, crawlVars>>

NextRow == ParseResultRow \/ ParsePlayer

SpecRow == InitRow /\ [][NextRow]_vars

\* the labels whose index is beyond the cells of the row
BeyondRow == {l \in DOMAIN column_map : column_map[l] >= Len(FindAllTd(tr))}

\* C12 as stated: in plain mode and in link-aware mode the returned record has
\* every label of the column map, and a label whose index is beyond the row's
\* cells carries the absent marker, which is not the empty string.
C12_Claim ==
    scrape_pc \in {"row", "player"} =>
        /\ DOMAIN column_map \subseteq DOMAIN row_data
        /\ \A l \in BeyondRow : row_data[l] = AbsentCell /\ row_data[l] # <<>>
        /\ \A l \in (DOMAIN column_map) \ BeyondRow : row_data[l] # AbsentCell

----------------------------------------------------------------------------
(* Properties of fetch_tournament_results.                                 *)

\* a column value that is neither the empty string nor the absent marker
NonBlank(v) == v # <<>> /\ v # <<PyNone>>

\* the data rows of the page: not header-marked, two <td> cells at least
DataRows(sp) ==
    {k \in 1..Len(sp.trs) :
        /\ sp.trs[k].classes \cap {"CRng1b", "CRg1b"} = {}
        /\ Cardinality({c \in 1..Len(sp.trs[k].cells) : sp.trs[k].cells[c].tag = "td"}) >= 2}

\* the data rows whose extracted column values are all empty or absent
BlankRows(sp, cmap) ==
    {k \in DataRows(sp) :
        \A l \in DOMAIN cmap : ~NonBlank(parse_result_row(sp.trs[k], cmap)[l])}

\* C13 as stated: the records returned for a page hold one record for each
\* data row that has a truthy column value and none for an entirely blank
\* row, whatever tournament URL the page is parsed with.
C13_Claim ==
    scrape_pc = "fetched" =>
        /\ Len(rows) = Cardinality(DataRows(soup) \ BlankRows(soup, column_map))
        /\ \A k \in 1..Len(rows) :
               \E l \in DOMAIN column_map : NonBlank(rows[k][l])

----------------------------------------------------------------------------
(* process_tournaments_async of both scrapers: one task of fetch_with_limit *)
(* per URL, all admitted through one asyncio.Semaphore, collected by       *)
(* asyncio.gather in task order.  A task is "created" until it has the     *)
(* semaphore, "get" while it awaits session.get, "text" while it awaits    *)
(* response.text(), "done" once fetch_with_limit has returned.             *)

MaxUrls == 4      \* most URLs of a batch
MaxConc == 2      \* largest concurrency ceiling

UrlList == << <<"t", "n", "r", "1">>, <<"t", "n", "r", "2">>, <<"t", "n", "r", "3">>,
              <<"t", "n", "r", "4">>, <<"t", "n", "r", "5">>, <<"t", "n", "r", "6">>,
              <<"t", "n", "r", "7">>, <<"t", "n", "r", "8">> >>

UrlIndex(u) == CHOOSE k \in 1..Len(UrlList) : UrlList[k] = u

\* the rows fetch_tournament_results returns for the page of u when the
\* download succeeds; the page of every third URL has no rows
PageRowsOf(u) ==
    [j \in 1..(UrlIndex(u) % 3) |->
        DictSet(DictSet(NoDict, L_Nr, PyStrInt(j)), L_tournament_url, u)]

Tasks == 1..Len(tournament_urls)

batchRest == <<convVars, parseVars, scrapeVars, crawlVars>>

\* Semaphore.acquire() returns without waiting
CanAcquire_Unbounded(value) == TRUE

CanAcquire(value) == value > 0

\* Semaphore.release() at the exit of "async with semaphore"
Release_Leak(value) == value

Release(value) == value + 1

\* pd.concat(all_frames, ignore_index=True) / results.extend(res), from frame k
RECURSIVE Concat(_, _)
Concat(frames, k) ==
    IF k > Len(frames) THEN <<>> ELSE frames[k] \o Concat(frames, k + 1)

InitBatch ==
    /\ ConvIdle /\ ParseIdle /\ ScrapeIdle /\ CrawlIdle
    /\ \E n \in 0..MaxUrls : \E off \in 0..1 :
           tournament_urls = [j \in 1..n |-> UrlList[j + off]]
    /\ max_concurrency \in 0..MaxConc
    /\ semaphore = max_concurrency
    /\ task_pc = [i \in Tasks |-> "created"]
    /\ results = [i \in Tasks |-> <<>>]
    /\ raised = {}
    /\ combined = <<>>
    /\ batch_pc = "gather"

\* async with semaphore: the task enters
Acquire(i) ==
    /\ task_pc[i] = "created"
    /\ CanAcquire(semaphore)
    /\ semaphore' = semaphore - 1
    /\ task_pc' = [task_pc EXCEPT ![i] = "get"]
    /\ UNCHANGED <<tournament_urls, max_concurrency, results, raised, combined, batch_pc,
                   batchRest>>

\* async with session.get(url) as response: the response headers arrived
ResponseArrives(i) ==
    /\ task_pc[i] = "get"
    /\ task_pc' = [task_pc EXCEPT ![i] = "text"]
    /\ UNCHANGED <<tournament_urls, max_concurrency, semaphore, results, raised,
                   combined, batch_pc,
                   batchRest>>

\* the body arrived, the page is parsed, the frame returned, the semaphore released
ReturnFrame(i) ==
    /\ task_pc[i] = "text"
    /\ results' = [results EXCEPT ![i] = PageRowsOf(tournament_urls[i])]
    /\ semaphore' = Release(semaphore)
    /\ task_pc' = [task_pc EXCEPT ![i] = "done"]
    /\ UNCHANGED <<tournament_urls, max_concurrency, raised, combined, batch_pc,
                   batchRest>>

\* the download or the parsing raised: except Exception returns an empty frame
DownloadRaises(i) ==
    /\ task_pc[i] \in {"get", "text"}
    /\ results' = [results EXCEPT ![i] = <<>>]
    /\ raised' = raised \cup {i}
    /\ semaphore' = Release(semaphore)
    /\ task_pc' = [task_pc EXCEPT ![i] = "done"]
    /\ UNCHANGED <<tournament_urls, max_concurrency, combined, batch_pc,
                   batchRest>>

TaskStep(i) == Acquire(i) \/ ResponseArrives(i) \/ ReturnFrame(i) \/ DownloadRaises(i)

\* asyncio.gather returns, the frames are concatenated and returned
Gather ==
    /\ batch_pc = "gather"
    /\ \A i \in Tasks : task_pc[i] = "done"
    /\ combined' = Concat(results, 1)
    /\ batch_pc' = "returned"
    /\ UNCHANGED <<tournament_urls, max_concurrency, semaphore, task_pc, results, raised,
                   batchRest>>

NextBatch ==
    \/ \E i \in Tasks : Acquire(i)
    \/ \E i \in Tasks : ResponseArrives(i)
    \/ \E i \in Tasks : ReturnFrame(i)
    \/ \E i \in Tasks : DownloadRaises(i)
    \/ Gather

SpecBatch == InitBatch /\ [][NextBatch]_vars

\* the event loop runs every ready task, and every download ends, by a
\* response or by an exception
TaskRuns(i) == i \in Tasks /\ TaskStep(i)

BatchFairness ==
    /\ \A i \in 1..MaxUrls : WF_vars(TaskRuns(i))
    /\ WF_vars(Gather)

SpecBatchFair == InitBatch /\ [][NextBatch]_vars /\ BatchFairness

----------------------------------------------------------------------------
(* Properties of process_tournaments_async.                                *)

\* the tasks between acquiring and releasing the semaphore
InFlight == {i \in Tasks : task_pc[i] \in {"get", "text"}}

\* C14: at every moment of a batch the downloads in flight number at most
\* the concurrency ceiling.
C14_Bounded == batch_pc # "idle" => Cardinality(InFlight) <= max_concurrency

\* the ceiling is reached, a task waits for admission, and a download has failed
C14_Witness ==
    /\ batch_pc = "gather"
    /\ max_concurrency = 2
    /\ Cardinality(InFlight) = 2
    /\ \E i \in Tasks : task_pc[i] = "created"
    /\ raised # {}

\* the result the claim gives task i
ClaimResult(i) == IF i \in raised THEN <<>> ELSE PageRowsOf(tournament_urls[i])

RECURSIVE ClaimCombined(_)
ClaimCombined(i) ==
    IF i > Len(tournament_urls) THEN <<>> ELSE ClaimResult(i) \o ClaimCombined(i + 1)

\* C15: with a ceiling of at least 1 and fair scheduling every task finishes
\* and the batch returns; every task that is not in flight has given back its
\* slot; a failed download contributes an empty result for its own URL only,
\* and the combined result is the concatenation in URL order of the results
\* of the downloads that succeeded.
C15_Completion ==
    /\ [](batch_pc # "idle" => semaphore + Cardinality(InFlight) = max_concurrency)
    /\ [](batch_pc = "returned" =>
            /\ \A i \in Tasks : task_pc[i] = "done" /\ results[i] = ClaimResult(i)
            /\ combined = ClaimCombined(1))
    /\ (batch_pc = "gather" /\ max_concurrency >= 1) ~> (batch_pc = "returned")

\* a batch larger than its ceiling returned, one download failed, others did not
C15_Witness ==
    /\ batch_pc = "returned"
    /\ max_concurrency >= 1
    /\ Len(tournament_urls) > max_concurrency
    /\ raised # {} /\ raised # Tasks
    /\ combined # <<>>
    /\ \E i \in raised : PageRowsOf(tournament_urls[i]) # <<>>

----------------------------------------------------------------------------
(* Properties of the Result field of the GameRecords.                      *)

HalfText == <<"1", "/", "2">>

\* the text after the colour letter of a stripped round cell
OutcomeText(text) ==
    LET t == Strip(text)
        k == DigitRun(t)
    IN IF Len(t) >= k + 1 THEN SubSeq(t, k + 2, Len(t)) ELSE <<>>

\* the records of the game of row i in round r
GamesOf(d, i, r) ==
    {k \in 1..Len(Emitted) :
        /\ Emitted[k].Round = r
        /\ Emitted[k].tournament_url = d.rows[i][L_tournament_url]
        /\ {Emitted[k].WhiteStartNumber, Emitted[k].BlackStartNumber}
               = {d.rows[i][L_Nr], Token(d, i, ColName(r)).opp_num}}

\* C16 as stated: a materialized round cell whose outcome is written 1/2,
\* for White or for Black, gives a GameRecord with Result 1/2-1/2.
C16_Claim ==
    Saved =>
        \A ir \in Materialized(df) :
            OutcomeText(df.rows[ir[1]][ColName(ir[2])]) = HalfText =>
                /\ GamesOf(df, ir[1], ir[2]) # {}
                /\ \A k \in GamesOf(df, ir[1], ir[2]) : Emitted[k].Result = "1/2-1/2"

CanonicalResults == {"1-0", "0-1", "1/2-1/2"}

\* the characters of the round cell
CellChars(text) == {text[k] : k \in 1..Len(text)}

\* C17 as stated: the Result of every GameRecord is 1-0, 0-1, 1/2-1/2 or an
\* outcome symbol that occurs in the round cell the record was derived from.
C17_Claim ==
    Saved =>
        \A ir \in Materialized(df) :
            /\ GamesOf(df, ir[1], ir[2]) # {}
            /\ \A k \in GamesOf(df, ir[1], ir[2]) :
                   \/ Emitted[k].Result \in CanonicalResults
                   \/ Emitted[k].Result \in CellChars(df.rows[ir[1]][ColName(ir[2])])

----------------------------------------------------------------------------
(* ChessTournamentSeleniumScraper.crawl_all_tournaments: one action per    *)
(* pass of "while True", by the way the pass ends.  A tournament is        *)
(* [country, fetch, pos, end_date]; dates are day numbers, and an end_date *)
(* that is not a YYYY/MM/DD date is BogusDate.  The checkpoint CSV is the  *)
(* sequence of its rows.                                                   *)

NumCountries == 3     \* length of countries_alpha3
PageSize == 2         \* rows of a full result page (2000 in the source)
Today == 9            \* datetime.now()
Days == 1..2          \* the end dates of the site's tournaments

BogusDate == 0

is_bogus_date(date_str) == date_str = BogusDate

\* def find_last_valid_date(response): the last end_date that is a date, or None
RECURSIVE FindFrom(_, _)
FindFrom(response, i) ==
    IF i > Len(response) THEN PyNone
    ELSE IF ~is_bogus_date(response[Len(response) + 1 - i].end_date)
         THEN response[Len(response) + 1 - i].end_date
         ELSE FindFrom(response, i + 1)

find_last_valid_date(response) == FindFrom(response, 1)

\* positional parameters in "def find_last_valid_date(response)"
FindLastValidDateParams == 1

\* self.find_last_valid_date(response): the method is looked up on the
\* instance, so the call passes self and response
SelfFindLastValidDate(response) ==
    IF FindLastValidDateParams # 2 THEN "TypeError"
    ELSE find_last_valid_date(response)

\* what fetch_data can return for the country: up to PageSize tournaments,
\* none when fetch_tournaments caught an exception
Responses(c, f) ==
    UNION {{[k \in 1..n |-> [country |-> c, fetch |-> f, pos |-> k, end_date |-> ds[k]]] :
            ds \in [1..n -> Days \cup {BogusDate}]} : n \in 0..PageSize}

\* create_checkpoint: append the list to the file and clear the list
create_checkpoint(file, tournaments) ==
    IF tournaments # <<>>
    THEN [file |-> file \o tournaments, tournaments |-> <<>>]
    ELSE [file |-> file, tournaments |-> tournaments]

\* a row the output file holds from an earlier run
OldRow == [country |-> 0, fetch |-> 0, pos |-> 1, end_date |-> 1]

crawlRest == <<convVars, parseVars, scrapeVars, batchVars>>

InitCrawl ==
    /\ ConvIdle /\ ParseIdle /\ ScrapeIdle /\ BatchIdle
    /\ countryIdx = 0
    /\ fetches = 0
    /\ current_end_date = Today
    /\ country_tournaments = <<>>
    /\ all_tournaments = <<>>
    /\ output_file \in {<<>>, <<OldRow>>}
    /\ crawl_pc = "loop"

InCountry == crawl_pc = "loop" /\ countryIdx < NumCountries

\* fewer than 2000 results: checkpoint, break, next country
FetchLast ==
    /\ InCountry
    /\ \E response \in Responses(countryIdx + 1, fetches + 1) :
        /\ Len(response) < PageSize
        /\ all_tournaments' = all_tournaments \o response
        /\ LET cp == create_checkpoint(output_file, country_tournaments \o response) IN
           /\ output_file' = cp.file
           /\ country_tournaments' = <<>>
    /\ countryIdx' = countryIdx + 1
    /\ fetches' = 0
    /\ current_end_date' = Today
    /\ UNCHANGED <<crawl_pc, crawlRest>>

\* 2000 results: the call self.find_last_valid_date(response) raises, the
\* finally clause quits the driver and the exception leaves the crawl
FetchFullRaises ==
    /\ InCountry
    /\ \E response \in Responses(countryIdx + 1, fetches + 1) :
        /\ Len(response) = PageSize
        /\ SelfFindLastValidDate(response) = "TypeError"
        /\ all_tournaments' = all_tournaments \o response
        /\ country_tournaments' = country_tournaments \o response
    /\ fetches' = fetches + 1
    /\ crawl_pc' = "TypeError"
    /\ UNCHANGED <<countryIdx, current_end_date, output_file, crawlRest>>

\* the for loop is exhausted: return pd.DataFrame(all_tournaments)
CrawlReturns ==
    /\ crawl_pc = "loop"
    /\ countryIdx = NumCountries
    /\ crawl_pc' = "returned"
    /\ UNCHANGED <<countryIdx, fetches, current_end_date, country_tournaments,
                   all_tournaments, output_file, crawlRest>>

NextCrawl == FetchLast \/ FetchFullRaises \/ CrawlReturns

SpecCrawl == InitCrawl /\ [][NextCrawl]_vars

\* the crawl is between two countries, or has left the loop for good
LeftCountry == crawl_pc \in {"returned", "TypeError"} \/ (crawl_pc = "loop" /\ fetches = 0)

\* C18 as stated: when the loop has left a country, every tournament that a
\* fetch returned has been written to the checkpoint file exactly once.
C18_Claim ==
    LeftCountry =>
        \A k \in 1..Len(all_tournaments) :
            Occurrences(output_file, all_tournaments[k]) = 1

====
